---- MODULE Spec2Model ----
(***************************************************************************)
(* Model of src/main.rs: the latency-instrumented order submission run.   *)
(* One logical task; the actions are the segments of main() between two   *)
(* suspension points (.await).  Remote calls and clock readings are the   *)
(* environment: every remote call may succeed or fail and every elapsed   *)
(* time is drawn from 0..MaxMs.                                            *)
(***************************************************************************)
EXTENDS Integers, Sequences, FiniteSets, TLC

\* ---------------------------------------------------------------- bounds
MaxIter == 3        \* largest --iterations value explored
MaxMs == 2          \* largest elapsed time of one stage, in ms

\* ---------------------------------------------------------------- inputs
Attrs == {"tick_size", "neg_risk", "fee_rate_bps"}

Digits == {"0", "1", "2", "3", "4", "5", "6", "7", "8", "9"}

DigitVal(c) ==
  CASE c = "0" -> 0 [] c = "1" -> 1 [] c = "2" -> 2 [] c = "3" -> 3
    [] c = "4" -> 4 [] c = "5" -> 5 [] c = "6" -> 6 [] c = "7" -> 7
    [] c = "8" -> 8 [] c = "9" -> 9

\* decimal digits of 2^256 - 1, the largest U256
U256MaxDigits ==
  << 1,1,5,7,9,2,0,8,9,2,3,7,3,1,6,1,9,5,4,2,3,5,7,0,9,8,5,0,0,8,6,8,7,9,0,7,8,5,3,
     2,6,9,9,8,4,6,6,5,6,4,0,5,6,4,0,3,9,4,5,7,5,8,4,0,0,7,9,1,3,1,2,9,6,3,9,9,3,5 >>

Nines(n) == [k \in 1..n |-> "9"]

\* --token-id values: the spec's scenario id, a non-digit, a sign, the
\* smallest 78-digit value that does not fit 256 bits, and a 79-digit value
TokenIdInputs ==
  { <<"1", "2", "3", "4", "5", "6">>,
    <<"1", "2", "x">>,
    <<"-", "1">>,
    [k \in 1..78 |-> IF k = 1 THEN "2" ELSE "0"],
    Nines(79) }

PkInputs == {"0xkey", "not-a-key"}
PriceInputs == {"0.50", "NaN"}
SizeInputs == {"100", "inf"}

\* elapsed-time readings: sign and post take any value up to MaxMs; build,
\* which only reads the warmed client, the fastest or the slowest one
Ms == 0..MaxMs
BuildMs == {0, MaxMs}

\* ---------------------------------------------------------------- state
VARIABLES
  args,             \* Args: token_id, price, size, iterations; plus env PK
  pc,               \* position of main(): the .await it is suspended at
  error,            \* the error main() returned, "none" while running
  auth_res,         \* outcome of authenticate(): none, pending, ok, err
  credentials,      \* the client holds credentials
  token_id_u256,    \* parsed token id (digit values), <<>> before parsing
  lookup_res,       \* tick_res / neg_res / fee_res of the join
  cache,            \* attributes the client holds after the pre-warm
  i,                \* loop variable, 0 before the loop
  build_ms, sign_ms,          \* stage timings of the order in flight
  total_latencies, build_times, sign_times, post_times,
  stats,            \* what the statistics block computed and printed
  handshakes, warmups, lookups, builds, posts, posted, delays,  \* call counts
  trace             \* completed stages, in order: <<stage, order index>>

vars == << args, pc, error, auth_res, credentials, token_id_u256, lookup_res, cache, i,
           build_ms, sign_ms, total_latencies, build_times, sign_times,
           post_times, stats, handshakes, warmups, lookups, builds, posts,
           posted, delays, trace >>

setupVars == << auth_res, credentials, token_id_u256, lookup_res, cache, handshakes,
                warmups, lookups >>
sampleVars == << total_latencies, build_times, sign_times, post_times >>
counters == << handshakes, warmups, lookups, builds, posts, posted, delays >>

\* ---------------------------------------------------------------- helpers
RECURSIVE Sum(_)
Sum(s) == IF s = <<>> THEN 0 ELSE Head(s) + Sum(Tail(s))

SeqMin(s) == CHOOSE x \in {s[k] : k \in 1..Len(s)} : \A y \in {s[k] : k \in 1..Len(s)} : x <= y
SeqMax(s) == CHOOSE x \in {s[k] : k \in 1..Len(s)} : \A y \in {s[k] : k \in 1..Len(s)} : x >= y

\* iter().skip(n)
Skip(s, n) == IF n >= Len(s) THEN <<>> ELSE SubSeq(s, n + 1, Len(s))

RECURSIVE StripZeros(_)
StripZeros(d) == IF Len(d) > 1 /\ Head(d) = 0 THEN StripZeros(Tail(d)) ELSE d

\* a > b for digit sequences of equal length
RECURSIVE DigitsGreater(_, _)
DigitsGreater(a, b) ==
  IF a = <<>> THEN FALSE
  ELSE IF Head(a) # Head(b) THEN Head(a) > Head(b)
  ELSE DigitsGreater(Tail(a), Tail(b))

FitsU256(d) ==
  \/ Len(d) < Len(U256MaxDigits)
  \/ Len(d) = Len(U256MaxDigits) /\ ~DigitsGreater(d, U256MaxDigits)

\* U256::from_str_radix(s, 10) for a non-empty s: Err on a non-digit or on a
\* value that does not fit 256 bits
U256FromStrRadix10(s) ==
  IF \E k \in 1..Len(s) : s[k] \notin Digits THEN [ok |-> FALSE, value |-> <<>>]
  ELSE LET d == StripZeros([k \in 1..Len(s) |-> DigitVal(s[k])])
       IN IF FitsU256(d) THEN [ok |-> TRUE, value |-> d]
          ELSE [ok |-> FALSE, value |-> <<>>]

\* Decimal::from_str of the formatted f64
DecimalFromStr(s) == s \notin {"NaN", "inf"}

\* PrivateKeySigner: pk_str.parse()
ParseSigner(s) == s = "0xkey"

NoStats == [reported |-> FALSE, skip_first |-> 0, retained |-> 0,
            avg |-> 0, min |-> 0, max |-> 0,
            avg_build |-> 0, avg_sign |-> 0, avg_post |-> 0,
            div_total |-> 0, div_stage |-> 0, bottleneck |-> "none"]

\* mutant: the threshold without its factor of two
Bottleneck_NoFactor(avg_post, avg_sign) ==
  IF avg_post > avg_sign THEN "network"
  ELSE IF avg_sign > avg_post THEN "crypto"
  ELSE "balanced"

\* the if / else-if / else of the bottleneck analysis
Bottleneck(avg_post, avg_sign) ==
  IF avg_post > avg_sign * 2 THEN "network"
  ELSE IF avg_sign > avg_post THEN "crypto"
  ELSE "balanced"

\* mutant: the first sample is excluded even when it is the only one
SkipFirst_Always(iterations) == IF iterations > 0 THEN 1 ELSE 0

SkipFirst(iterations) == IF iterations > 1 THEN 1 ELSE 0

\* ---------------------------------------------------------------- Init
Init ==
  /\ args \in [token_id : TokenIdInputs, price : PriceInputs, size : SizeInputs,
               iterations : 0..MaxIter, pk : PkInputs]
  /\ pc = "start"
  /\ error = "none"
  /\ auth_res = "none"
  /\ credentials = FALSE
  /\ token_id_u256 = <<>>
  /\ lookup_res = [a \in Attrs |-> "none"]
  /\ cache = {}
  /\ i = 0
  /\ build_ms = 0
  /\ sign_ms = 0
  /\ total_latencies = <<>>
  /\ build_times = <<>>
  /\ sign_times = <<>>
  /\ post_times = <<>>
  /\ stats = NoStats
  /\ handshakes = 0
  /\ warmups = 0
  /\ lookups = 0
  /\ builds = 0
  /\ posts = 0
  /\ posted = 0
  /\ delays = 0
  /\ trace = <<>>

\* main() returns Err(e): every local, the client included, is dropped
Abort(e) ==
  /\ pc' = "failed"
  /\ error' = e
  /\ credentials' = FALSE
  /\ cache' = {}

\* the for loop takes its next value, or ends and the statistics follow
EnterLoop(next) ==
  IF next <= args.iterations
  THEN /\ i' = next
       /\ pc' = "build"
       /\ builds' = builds + 1
  ELSE /\ pc' = "stats"
       /\ UNCHANGED << i, builds >>

\* ---------------------------------------------------------------- actions
\* lines 33-57: parse the signer, build the client, issue the handshake
Start ==
  /\ pc = "start"
  /\ IF ~ParseSigner(args.pk)
     THEN /\ Abort("InvalidPrivateKey")
          /\ UNCHANGED << auth_res, handshakes >>
     ELSE /\ pc' = "authenticate"
          /\ auth_res' = "pending"
          /\ handshakes' = handshakes + 1
          /\ UNCHANGED << error, credentials, cache >>
  /\ UNCHANGED << args, token_id_u256, lookup_res, i, build_ms, sign_ms,
                  sampleVars, stats, warmups, lookups, builds, posts, posted,
                  delays, trace >>

\* lines 57-75: authenticate() returns; parameters are parsed; the three
\* lookups are issued together
AuthenticateReturn ==
  /\ pc = "authenticate"
  /\ \E ok \in BOOLEAN :
       IF ~ok
       THEN /\ Abort("authenticate")
            /\ auth_res' = "err"
            /\ UNCHANGED << token_id_u256, lookup_res, warmups, lookups >>
       ELSE IF ~DecimalFromStr(args.price)
       THEN /\ Abort("price")
            /\ auth_res' = "ok"
            /\ UNCHANGED << token_id_u256, lookup_res, warmups, lookups >>
       ELSE IF ~DecimalFromStr(args.size)
       THEN /\ Abort("size")
            /\ auth_res' = "ok"
            /\ UNCHANGED << token_id_u256, lookup_res, warmups, lookups >>
       ELSE IF ~U256FromStrRadix10(args.token_id).ok
       THEN /\ Abort("token_id")
            /\ auth_res' = "ok"
            /\ UNCHANGED << token_id_u256, lookup_res, warmups, lookups >>
       ELSE /\ auth_res' = "ok"
            /\ credentials' = TRUE
            /\ token_id_u256' = U256FromStrRadix10(args.token_id).value
            /\ lookup_res' = [a \in Attrs |-> "pending"]
            /\ warmups' = warmups + 1
            /\ lookups' = lookups + Cardinality(Attrs)
            /\ pc' = "warmup"
            /\ UNCHANGED << error, cache >>
  /\ UNCHANGED << args, i, build_ms, sign_ms, sampleVars, stats, handshakes,
                  builds, posts, posted, delays, trace >>

\* lines 71-75: one of the joined lookups completes; a successful lookup
\* leaves its attribute in the client's cache
LookupReturn ==
  /\ pc = "warmup"
  /\ \E a \in Attrs, ok \in BOOLEAN :
       /\ lookup_res[a] = "pending"
       /\ lookup_res' = [lookup_res EXCEPT ![a] = IF ok THEN "ok" ELSE "err"]
       /\ cache' = IF ok THEN cache \cup {a} ELSE cache
  /\ UNCHANGED << args, pc, error, auth_res, credentials, token_id_u256, i,
                  build_ms, sign_ms, sampleVars, stats, counters, trace >>

\* mutant: the wait ends with the first lookup that completes
JoinComplete_First(res) == \E a \in Attrs : res[a] \in {"ok", "err"}

\* tokio::join! returns when all three futures have completed
JoinComplete(res) == \A a \in Attrs : res[a] \in {"ok", "err"}

\* mutant: fee_res is never checked
FirstLookupError_NoFee(res) ==
  IF res["tick_size"] = "err" THEN "tick_size"
  ELSE IF res["neg_risk"] = "err" THEN "neg_risk"
  ELSE "none"

\* tick_res?; neg_res?; fee_res?; the error the first failing ? returns
FirstLookupError(res) ==
  IF res["tick_size"] = "err" THEN "tick_size"
  ELSE IF res["neg_risk"] = "err" THEN "neg_risk"
  ELSE IF res["fee_rate_bps"] = "err" THEN "fee_rate_bps"
  ELSE "none"

\* lines 75-92: the join is complete; the three results are checked; then the
\* loop is entered
WarmupJoined ==
  /\ pc = "warmup"
  /\ JoinComplete(lookup_res)
  /\ IF FirstLookupError(lookup_res) # "none"
     THEN /\ Abort(FirstLookupError(lookup_res))
          /\ UNCHANGED << i, builds >>
     ELSE /\ EnterLoop(1)
          /\ UNCHANGED << error, credentials, cache >>
  /\ UNCHANGED << args, auth_res, token_id_u256, lookup_res, build_ms, sign_ms,
                  sampleVars, stats, handshakes, warmups, lookups, posts,
                  posted, delays, trace >>

\* mutant: every build fetches the metadata again
BuildReturn_Refetch ==
  /\ pc = "build"
  /\ \E ok \in BOOLEAN, ms \in BuildMs :
       IF ~ok
       THEN /\ Abort("build")
            /\ UNCHANGED << build_ms, trace, lookups >>
       ELSE /\ build_ms' = ms
            /\ trace' = Append(trace, << "build", i >>)
            /\ lookups' = lookups + Cardinality(Attrs)
            /\ pc' = "sign"
            /\ UNCHANGED << error, credentials, cache >>
  /\ UNCHANGED << args, auth_res, token_id_u256, lookup_res, i, sign_ms,
                  sampleVars, stats, handshakes, warmups, builds, posts, posted,
                  delays >>

\* lines 98-112: build().await? returns; the order is handed to sign
BuildReturn ==
  /\ pc = "build"
  /\ \E ok \in BOOLEAN, ms \in BuildMs :
       IF ~ok
       THEN /\ Abort("build")
            /\ UNCHANGED << build_ms, trace >>
       ELSE /\ build_ms' = ms
            /\ trace' = Append(trace, << "build", i >>)
            /\ pc' = "sign"
            /\ UNCHANGED << error, credentials, cache >>
  /\ UNCHANGED << args, auth_res, token_id_u256, lookup_res, i, sign_ms,
                  sampleVars, stats, counters >>

\* lines 112-117: sign().await? returns; the signed order is posted
SignReturn ==
  /\ pc = "sign"
  /\ \E ok \in BOOLEAN, ms \in Ms :
       IF ~ok
       THEN /\ Abort("sign")
            /\ UNCHANGED << sign_ms, trace, posts >>
       ELSE /\ sign_ms' = ms
            /\ trace' = Append(trace, << "sign", i >>)
            /\ posts' = posts + 1
            /\ pc' = "post"
            /\ UNCHANGED << error, credentials, cache >>
  /\ UNCHANGED << args, auth_res, token_id_u256, lookup_res, i, build_ms,
                  sampleVars, stats, handshakes, warmups, lookups, builds, posted,
                  delays >>

\* mutant: the post time is not pushed
RecordStats_NoPost(total_ms, b_ms, s_ms, p_ms) ==
  /\ total_latencies' = Append(total_latencies, total_ms)
  /\ build_times' = Append(build_times, b_ms)
  /\ sign_times' = Append(sign_times, s_ms)
  /\ post_times' = post_times

\* lines 122-126: one push per vector
RecordStats(total_ms, b_ms, s_ms, p_ms) ==
  /\ total_latencies' = Append(total_latencies, total_ms)
  /\ build_times' = Append(build_times, b_ms)
  /\ sign_times' = Append(sign_times, s_ms)
  /\ post_times' = Append(post_times, p_ms)

\* mutant: a sleep follows every order
SleepAfter_Every(k, iterations) == k <= iterations

\* line 135: a sleep follows every order but the last
SleepAfter(k, iterations) == k < iterations

\* lines 117-139: post_order().await? returns; the sample is recorded; the
\* task sleeps unless this was the last iteration
\* (order_start.elapsed() spans the three stages: total_ms is taken as the
\* sum of the three stage readings)
PostReturn ==
  /\ pc = "post"
  /\ \E ok \in BOOLEAN, post_ms \in Ms :
       IF ~ok
       THEN /\ Abort("post")
            /\ UNCHANGED << sampleVars, posted, trace >>
       ELSE /\ RecordStats(build_ms + sign_ms + post_ms, build_ms, sign_ms, post_ms)
            /\ posted' = posted + 1
            /\ trace' = Append(trace, << "post", i >>)
            /\ pc' = IF SleepAfter(i, args.iterations) THEN "sleep" ELSE "stats"
            /\ UNCHANGED << error, credentials, cache >>
  /\ UNCHANGED << args, auth_res, token_id_u256, lookup_res, i, build_ms,
                  sign_ms, stats, handshakes, warmups, lookups, builds, posts,
                  delays >>

\* lines 137-139, 92: the sleep ends; the loop takes its next value
SleepReturn ==
  /\ pc = "sleep"
  /\ delays' = delays + 1
  /\ trace' = Append(trace, << "delay", i >>)
  /\ EnterLoop(i + 1)
  /\ UNCHANGED << args, error, auth_res, credentials, token_id_u256,
                  lookup_res, cache, build_ms, sign_ms, sampleVars, stats,
                  handshakes, warmups, lookups, posts, posted >>

\* mutant: the sum runs over every sample, the count over the retained ones
TotalAvg_SumAll(latencies, skip_first) ==
  Sum(latencies) \div Len(Skip(latencies, skip_first))

\* lines 149-150: the average of the steady-state total latencies
TotalAvg(latencies, skip_first) ==
  Sum(Skip(latencies, skip_first)) \div Len(Skip(latencies, skip_first))

\* lines 142-186: the statistics block
ComputeStats ==
  LET skip_first == SkipFirst(args.iterations)
      steady_state == Skip(total_latencies, skip_first)
      div_stage == args.iterations - skip_first
  IN IF ~(args.iterations > skip_first) THEN [NoStats EXCEPT !.skip_first = skip_first]
     ELSE IF Len(steady_state) = 0 \/ div_stage = 0 THEN [NoStats EXCEPT !.bottleneck = "panic"]
     ELSE LET avg_sign == Sum(Skip(sign_times, skip_first)) \div div_stage
              avg_post == Sum(Skip(post_times, skip_first)) \div div_stage
          IN [reported |-> TRUE,
              skip_first |-> skip_first,
              retained |-> Len(steady_state),
              avg |-> TotalAvg(total_latencies, skip_first),
              min |-> SeqMin(steady_state),
              max |-> SeqMax(steady_state),
              avg_build |-> Sum(Skip(build_times, skip_first)) \div div_stage,
              avg_sign |-> avg_sign,
              avg_post |-> avg_post,
              div_total |-> Len(steady_state),
              div_stage |-> div_stage,
              bottleneck |-> Bottleneck(avg_post, avg_sign)]

Statistics ==
  /\ pc = "stats"
  /\ stats' = ComputeStats
  /\ pc' = IF ComputeStats.bottleneck = "panic" THEN "panicked" ELSE "done"
  /\ UNCHANGED << args, error, auth_res, credentials, token_id_u256,
                  lookup_res, cache, i, build_ms, sign_ms, sampleVars, counters,
                  trace >>

Next ==
  \/ Start
  \/ AuthenticateReturn
  \/ LookupReturn
  \/ WarmupJoined
  \/ BuildReturn
  \/ SignReturn
  \/ PostReturn
  \/ SleepReturn
  \/ Statistics

Spec == Init /\ [][Next]_vars

TypeOK ==
  /\ pc \in {"start", "authenticate", "warmup", "build", "sign", "post", "sleep",
              "stats", "done", "failed", "panicked"}
  /\ i \in 0..MaxIter
  /\ cache \subseteq Attrs
  /\ auth_res \in {"none", "pending", "ok", "err"}

\* ---------------------------------------------------------------- properties
SetupErrors == {"InvalidPrivateKey", "authenticate", "price", "size", "token_id"}
OrderErrors == {"build", "sign", "post"}
LoopPcs == {"build", "sign", "post", "sleep"}
AllLookupsOk == \A a \in Attrs : lookup_res[a] = "ok"
SomeLookupFailed == \E a \in Attrs : lookup_res[a] = "err"
WarmupOver == warmups = 1 /\ pc # "warmup"

\* C1: a failed handshake or a failed metadata lookup aborts the run and no
\* order is built, signed or posted: whenever a build has been started, the
\* handshake and all three lookups have succeeded.
C1_NoOrderWithoutSetup ==
  /\ builds > 0 => auth_res = "ok" /\ AllLookupsOk
  /\ auth_res = "err" => pc = "failed" /\ error = "authenticate"
  /\ (WarmupOver /\ SomeLookupFailed) => pc = "failed" /\ error \in Attrs
  /\ (auth_res = "err" \/ SomeLookupFailed) => builds = 0 /\ posts = 0 /\ trace = <<>>

C1_Witness ==
  /\ pc = "failed"
  /\ error = "fee_rate_bps"
  /\ lookup_res["tick_size"] = "ok"
  /\ lookup_res["neg_risk"] = "ok"
  /\ builds = 0

\* C2: a failure of build, sign or post of one order does not abort the run:
\* every run that got past the setup attempts all N iterations.
C2_AllIterationsAttempted ==
  (pc \in {"done", "failed"} /\ error \notin SetupErrors \cup Attrs)
    => builds = args.iterations

\* C3: a malformed token id is rejected before any network activity: no
\* handshake, no metadata lookup and no order POST is issued in such a run.
C3_MalformedTokenNoNetwork ==
  ~U256FromStrRadix10(args.token_id).ok
    => handshakes = 0 /\ lookups = 0 /\ posts = 0

SetupUntouched ==
  pc \in LoopPcs \cup {"stats", "done"}
    => /\ UNCHANGED << auth_res, token_id_u256, lookup_res, handshakes, warmups,
                       lookups >>
       /\ (pc' # "failed" => UNCHANGED << credentials, cache >>)

\* C4: one handshake and one warm-up per run, both complete before the first
\* loop iteration; from the first iteration on no handshake or lookup is
\* issued and the credential and metadata state of the running program is
\* not written.
C4_SetupOnceThenReadOnly ==
  /\ [](handshakes <= 1 /\ warmups <= 1 /\ lookups <= Cardinality(Attrs))
  /\ []((builds > 0 \/ pc \in {"stats", "done"})
          => /\ handshakes = 1 /\ warmups = 1 /\ lookups = Cardinality(Attrs)
             /\ auth_res = "ok" /\ AllLookupsOk)
  /\ [](pc \in LoopPcs \cup {"stats", "done"} => credentials /\ cache = Attrs)
  /\ [][SetupUntouched]_vars

C4_Witness ==
  /\ pc = "done"
  /\ args.iterations = MaxIter
  /\ posted = MaxIter
  /\ handshakes = 1
  /\ warmups = 1

Stage(j) ==
  CASE j % 4 = 1 -> "build" [] j % 4 = 2 -> "sign" [] j % 4 = 3 -> "post"
    [] j % 4 = 0 -> "delay"

\* C5: the loop is sequential: the completed stages are build k, sign k,
\* post k, delay k, build k+1, ... in this order; build k+1 starts only
\* after delay k; a completed run of N >= 1 orders has N-1 delays and ends
\* with the post of order N.
C5_SequentialLoop ==
  /\ \A j \in 1..Len(trace) : trace[j] = << Stage(j), ((j - 1) \div 4) + 1 >>
  /\ builds > 0 => builds = delays + 1 /\ Len(trace) >= 4 * (builds - 1)
  /\ builds = 0 => delays = 0 /\ trace = <<>>
  /\ (pc = "done" /\ args.iterations >= 1)
       => /\ delays = args.iterations - 1
          /\ Len(trace) = 4 * args.iterations - 1
          /\ trace[Len(trace)] = << "post", args.iterations >>

C5_Witness ==
  /\ pc = "done"
  /\ args.iterations = MaxIter
  /\ delays = MaxIter - 1
  /\ Len(trace) = 4 * MaxIter - 1

\* C6: the warm-up is all-or-nothing whatever the order in which the three
\* lookups complete: the run goes on past the warm-up iff all three lookups
\* succeeded, and then holds all three attributes; when one failed the run
\* has failed with that lookup's error and holds none of them.
C6_WarmupAllOrNothing ==
  /\ WarmupOver => (error \notin Attrs <=> AllLookupsOk)
  /\ (WarmupOver /\ AllLookupsOk /\ pc # "failed") => cache = Attrs
  /\ (WarmupOver /\ SomeLookupFailed)
       => pc = "failed" /\ cache = {} /\ builds = 0
  /\ (WarmupOver /\ pc # "failed") => cache \in {{}, Attrs}

C6_Witness ==
  /\ pc = "failed"
  /\ error = "tick_size"
  /\ lookup_res["neg_risk"] = "ok"
  /\ lookup_res["fee_rate_bps"] = "ok"
  /\ cache = {}

\* C7: reported statistics satisfy min <= average <= max, min and max being
\* the least and the greatest retained sample, and the retained samples are
\* never more than the recorded ones.
C7_MinAvgMax ==
  stats.reported
    => /\ stats.min <= stats.avg
       /\ stats.avg <= stats.max
       /\ \A k \in (stats.skip_first + 1)..Len(total_latencies) :
            stats.min <= total_latencies[k] /\ total_latencies[k] <= stats.max
       /\ \E k \in (stats.skip_first + 1)..Len(total_latencies) :
            stats.min = total_latencies[k]
       /\ \E k \in (stats.skip_first + 1)..Len(total_latencies) :
            stats.max = total_latencies[k]
       /\ stats.retained <= Len(total_latencies)
       /\ stats.retained = Len(total_latencies) - stats.skip_first

C7_Witness ==
  /\ stats.reported
  /\ stats.retained >= 2
  /\ stats.min < stats.avg
  /\ stats.avg < stats.max
  /\ total_latencies[1] > stats.max

\* C8: the bottleneck is exactly one of network, crypto, balanced: network
\* iff avg_post > 2 * avg_sign, crypto iff avg_sign > avg_post, balanced in
\* every other case.
C8_BottleneckClasses ==
  stats.reported
    => /\ stats.bottleneck \in {"network", "crypto", "balanced"}
       /\ stats.bottleneck = "network" <=> stats.avg_post > 2 * stats.avg_sign
       /\ stats.bottleneck = "crypto" <=> stats.avg_sign > stats.avg_post
       /\ stats.bottleneck = "balanced"
            <=> (stats.avg_sign <= stats.avg_post /\ stats.avg_post <= 2 * stats.avg_sign)

C8_Witness ==
  /\ stats.reported
  /\ stats.avg_sign = 1
  /\ stats.avg_post = 2
  /\ stats.bottleneck = "balanced"

PostsInTrace == Cardinality({j \in 1..Len(trace) : trace[j][1] = "post"})

AppendedByPostReturn ==
  sampleVars' # sampleVars
    => /\ pc = "post"
       /\ posted' = posted + 1
       /\ Len(total_latencies') = Len(total_latencies) + 1
       /\ SubSeq(total_latencies', 1, Len(total_latencies)) = total_latencies

\* C9: one sample per successfully posted order: the four vectors have the
\* same length, the number of successful posts; a sample is appended only
\* by the step in which a post returns; after a completed run the length is N.
C9_OneSamplePerPostedOrder ==
  /\ [](/\ Len(total_latencies) = posted
         /\ Len(build_times) = posted
         /\ Len(sign_times) = posted
         /\ Len(post_times) = posted
         /\ posted = PostsInTrace
         /\ posted <= posts
         /\ (pc = "done" => posted = args.iterations))
  /\ [][AppendedByPostReturn]_vars

C9_Witness ==
  /\ pc = "failed"
  /\ error = "post"
  /\ posts = 2
  /\ posted = 1
  /\ Len(total_latencies) = 1

\* C10: the statistics step never divides by zero nor takes the min or max
\* of nothing: skipped when N = 0, over the single sample when N = 1, over
\* the N-1 samples after the first when N >= 2, with one divisor for all
\* four averages.
C10_StatsDivisor ==
  /\ pc # "panicked"
  /\ stats.reported => stats.div_total > 0 /\ stats.div_total = stats.div_stage
  /\ pc = "done"
       => /\ args.iterations = 0 => ~stats.reported
          /\ args.iterations = 1
               => /\ stats.reported
                  /\ stats.skip_first = 0
                  /\ stats.div_total = 1
                  /\ stats.avg = total_latencies[1]
                  /\ stats.avg_sign = sign_times[1]
          /\ args.iterations >= 2
               => /\ stats.reported
                  /\ stats.skip_first = 1
                  /\ stats.div_total = args.iterations - 1
                  /\ stats.retained = args.iterations - 1
                  /\ stats.avg = (Sum(total_latencies) - total_latencies[1])
                                   \div (args.iterations - 1)
                  /\ stats.avg_build = (Sum(build_times) - build_times[1])
                                         \div (args.iterations - 1)
                  /\ stats.avg_sign = (Sum(sign_times) - sign_times[1])
                                        \div (args.iterations - 1)
                  /\ stats.avg_post = (Sum(post_times) - post_times[1])
                                        \div (args.iterations - 1)

C10_Witness ==
  /\ pc = "done"
  /\ args.iterations = 3
  /\ stats.reported
  /\ stats.div_total = 2
  /\ total_latencies[1] # total_latencies[2]
====
